---- MODULE Spec2Model ----
(***************************************************************************)
(* Webhook ingestion and query service (FastAPI + SQLAlchemy on SQLite).   *)
(*                                                                         *)
(* Conventions of the model                                                *)
(*  - A Python str is a record [txt, pad]: the characters of txt followed  *)
(*    by pad copies of the filler character "x" (FillChar), so that a      *)
(*    string of 4097 characters is a small value.  txt never holds "x".    *)
(*    A timestamp text is written with its date-time part as one item of   *)
(*    txt, followed by the items of its suffix ("Z", "z", "+05:30").       *)
(*  - A JSON value is a record tagged by t: "absent" (no such key),        *)
(*    "null", "num", "str".                                                *)
(*  - Time is counted in half hours since 2025-01-15T00:00:00 UTC.         *)
(*  - A request's duration, and a sum of durations, is counted in tenths   *)
(*    of a microsecond.                                                    *)
(***************************************************************************)
EXTENDS Integers, Sequences, FiniteSets, Bags, TLC

\* ------------------------------------------------------------------ bounds

\* Number of request handlers that can be in flight at once.
NumWorkers == 2
\* senders in the largest store GET /stats starts from
FleetSize == 11
\* requests answered in a run that follows the request counters
MaxRequests == 3
\* The wall clock (datetime.utcnow) runs from 0 to MaxNow.
MaxNow == 1

\* ------------------------------------------------------- program constants

MessageIdMinLength == 1
MessageIdMaxLength == 255
TextMaxLength == 4096
\* \d{1,14}: the digits after the leading [1-9]
E164MinTail == 1
E164MaxTail == 14
DefaultLimit == 50
TopSendersLimit == 10
MaxDurations == 1000
DefaultOffset == 0
MinLimit == 1

\* ------------------------------------------------------------------ strings

FillChar == "x"
NL == "\n"

Str(txt, pad) == [txt |-> txt, pad |-> pad]
StrLen(s) == Len(s.txt) + s.pad
Chars(s) == s.txt \o [i \in 1..s.pad |-> FillChar]

\* Python None
None == [none |-> TRUE]

\* JSON values (json.loads results)
JAbsent == [t |-> "absent"]
JNull == [t |-> "null"]
JNum(n) == [t |-> "num", n |-> n]
JStr(txt, pad) == [t |-> "str", txt |-> txt, pad |-> pad]
StrOf(j) == Str(j.txt, j.pad)

AsciiDigits == {"0", "1", "2", "3", "4", "5", "6", "7", "8", "9"}
\* Characters of Unicode category Nd outside ASCII (ARABIC-INDIC DIGIT THREE)
UnicodeDigits == {"u0663"}
NonAsciiChars == UnicodeDigits \cup {"u00e9"}

\* ------------------------------------------------------- Signature Verifier

\* Settings.webhook_secret: Optional[str]
NoSecret == [set |-> FALSE]
Secret(v) == [set |-> TRUE, val |-> v]

is_webhook_secret_configured(secret) == secret.set /\ secret.val # ""

\* The X-Signature header: missing, a literal text, or the hex digest of a
\* key and a message (HMAC-SHA256 is collision free in the model).
NoHeader == [h |-> "none"]
Literal(txt) == [h |-> "literal", txt |-> txt]
HexDigest(key, msg) == [h |-> "hex", key |-> key, msg |-> msg]

compute_signature(secret, body) == HexDigest(secret, body)

IsAsciiText(sig) ==
    sig.h = "hex" \/ (sig.h = "literal" /\ \A i \in 1..Len(sig.txt) : sig.txt[i] \notin NonAsciiChars)

\* hmac.compare_digest on two str: raises TypeError unless both are ASCII
compare_digest(a, b) ==
    IF ~IsAsciiText(a) \/ ~IsAsciiText(b) THEN "TypeError"
    ELSE IF a = b THEN "True" ELSE "False"

verify_signature(secret, body, signature) ==
    compare_digest(compute_signature(secret, body), signature)

\* A response: the HTTP status and the JSON body
Http(status, body) == [status |-> status, body |-> body]
Detail(text) == [detail |-> text]
InvalidSignature == Http(401, Detail("invalid signature"))
\* an exception no handler catches
ServerError == Http(500, Detail("Internal Server Error"))
Passed == [passed |-> TRUE]

\* `not signature`: None or the empty string
HeaderFalsy(sig) == sig.h = "none" \/ (sig.h = "literal" /\ sig.txt = <<>>)

\* SignatureValidator.__call__: Passed, or the error response
SignatureValidator(secret, req) ==
    IF HeaderFalsy(req.sig) THEN InvalidSignature
    ELSE IF ~is_webhook_secret_configured(secret) THEN InvalidSignature
    ELSE LET v == verify_signature(secret.val, req.body, req.sig)
         IN  IF v = "TypeError" THEN ServerError
             ELSE IF v = "False" THEN InvalidSignature
             ELSE Passed

\* ------------------------------------------------------- Request Validators

\* re `\d` on str: any Unicode decimal digit
ReDigit(c) == c \in AsciiDigits \cup UnicodeDigits

\* E164_PATTERN.match(v) for ^\+[1-9]\d{1,14}$ ; `$` matches at the end of
\* the string and also just before a newline that ends the string.
E164_PATTERN_match(c) ==
    LET n == Len(c)
        ends == {n} \cup (IF n >= 1 /\ c[n] = "\n" THEN {n - 1} ELSE {})
    IN  \E m \in ends :
            /\ m >= 2 + E164MinTail
            /\ m <= 2 + E164MaxTail
            /\ c[1] = "+"
            /\ c[2] \in AsciiDigits \ {"0"}
            /\ \A i \in 3..m : ReDigit(c[i])

\* the date-time parts a timestamp text can start with, and their wall time
DateTimeParts == {"2025-01-15T09:00:00", "2025-01-15T10:00:00", "2025-01-15T11:00:00"}
WallOf(part) ==
    CASE part = "2025-01-15T09:00:00" -> 18
      [] part = "2025-01-15T10:00:00" -> 20
      [] part = "2025-01-15T11:00:00" -> 22

\* utcoffset of a suffix text, in half hours
Suffixes == {<<"Z">>, <<"z">>, <<"+05:30">>}
OffsetOf(suffix) == IF suffix = <<"+05:30">> THEN 11 ELSE 0

NoTz == [none |-> TRUE]
DateTime(wall, tz) == [wall |-> wall, tz |-> tz]
Failed == [ok |-> FALSE]
Parsed(v) == [ok |-> TRUE, val |-> v]

\* pydantic's datetime parsing (lax mode): ISO 8601 text, or a number taken
\* as Unix time (UTC)
parse_datetime(v) ==
    IF v.t = "num" THEN Parsed(DateTime(v.n, 0))
    ELSE IF v.t = "str" THEN
        LET c == Chars(StrOf(v))
        IN  IF Len(c) = 0 \/ c[1] \notin DateTimeParts THEN Failed
            ELSE IF Len(c) = 1 THEN Parsed(DateTime(WallOf(c[1]), NoTz))
            ELSE IF Tail(c) \in Suffixes THEN Parsed(DateTime(WallOf(c[1]), OffsetOf(Tail(c))))
            ELSE Failed
    ELSE Failed

\* v.endswith("Z")
EndsWithZ(s) == LET c == Chars(s) IN Len(c) >= 1 /\ c[Len(c)] = "Z"

\* Python truthiness of a JSON value (`not v`)
Falsy(v) == v.t = "null" \/ (v.t = "num" /\ v.n = 0) \/ (v.t = "str" /\ StrLen(StrOf(v)) = 0)

\* Outcome of a field's validation: "ok", "error" (a ValueError, collected
\* into the ValidationError) or "TypeError" (raised through model_validate)
message_id_check(v) ==
    IF v.t # "str" THEN "error"
    ELSE IF StrLen(StrOf(v)) < MessageIdMinLength \/ StrLen(StrOf(v)) > MessageIdMaxLength THEN "error"
    ELSE "ok"

\* mode="before": runs on the raw value, then the str type is checked
validate_from_e164(v) ==
    IF v.t = "absent" THEN "error"
    ELSE IF Falsy(v) THEN "error"
    ELSE IF v.t # "str" THEN "TypeError"
    ELSE IF ~E164_PATTERN_match(Chars(StrOf(v))) THEN "error"
    ELSE "ok"

\* mode="after": the str type is checked first
validate_to_e164(v) ==
    IF v.t # "str" THEN "error"
    ELSE IF StrLen(StrOf(v)) = 0 \/ ~E164_PATTERN_match(Chars(StrOf(v))) THEN "error"
    ELSE "ok"

\* mode="before": only a str is checked for the final Z; then the value is parsed
validate_ts_utc(v) ==
    IF v.t = "absent" THEN "error"
    ELSE IF v.t = "str" /\ ~EndsWithZ(StrOf(v)) THEN "error"
    ELSE IF ~parse_datetime(v).ok THEN "error"
    ELSE "ok"

\* max_length left out of the text field
text_check_no_max_length(v) ==
    IF v.t \in {"absent", "null"} THEN "ok"
    ELSE IF v.t # "str" THEN "error"
    ELSE "ok"

text_check(v) ==
    IF v.t \in {"absent", "null"} THEN "ok"
    ELSE IF v.t # "str" THEN "error"
    ELSE IF StrLen(StrOf(v)) > TextMaxLength THEN "error"
    ELSE "ok"

FieldNames == {"message_id", "from", "to", "ts", "text"}
FieldCheck(data, f) ==
    CASE f = "message_id" -> message_id_check(data.message_id)
      [] f = "from" -> validate_from_e164(data.from)
      [] f = "to" -> validate_to_e164(data.to)
      [] f = "ts" -> validate_ts_utc(data.ts)
      [] f = "text" -> text_check(data.text)

\* json.loads(validated_body): the bytes are decoded, then parsed
json_loads(body) ==
    IF body.k = "undecodable" THEN "UnicodeDecodeError"
    ELSE IF body.k = "malformed" THEN "JSONDecodeError"
    ELSE "ok"

\* WebhookMessageRequest.model_validate(data): the offending fields, empty
\* when the payload is accepted
model_validate_errors(data) ==
    IF data.k # "object" THEN {"__root__"}
    ELSE {f \in FieldNames : FieldCheck(data, f) # "ok"}

\* the validated model
message_data(data) ==
    [message_id |-> StrOf(data.message_id),
     from_ |-> StrOf(data.from),
     to |-> StrOf(data.to),
     ts |-> parse_datetime(data.ts).val,
     text |-> IF data.text.t = "str" THEN StrOf(data.text) ELSE None]

\* ------------------------------------------------------------ Message Store

\* Message(...) as flushed to the messages table: the DateTime column keeps
\* the wall-clock fields of ts and drops its tzinfo; created_at defaults to
\* datetime.utcnow() at insert.
NewMessage(msg, utcnow) ==
    [message_id |-> msg.message_id,
     sender |-> msg.from_,
     recipient |-> msg.to,
     ts |-> msg.ts.wall,
     text |-> msg.text,
     created_at |-> utcnow]

\* db.query(Message).filter(Message.message_id == id).first()
existing(st, id) == {r \in st : r.message_id = id}

\* a messages table without the primary key: every INSERT succeeds
db_commit_no_primary_key(st, row) == [ok |-> TRUE, store |-> st \cup {row}]

\* INSERT OR REPLACE: a conflicting row is overwritten
db_commit_replace(st, row) ==
    [ok |-> TRUE, store |-> {r \in st : r.message_id # row.message_id} \cup {row}]

\* db.add(message); db.commit(): message_id is the primary key, so the
\* INSERT fails with IntegrityError when a row with that key exists.
db_commit(st, row) ==
    IF \E r \in st : r.message_id = row.message_id
    THEN [ok |-> FALSE, store |-> st]
    ELSE [ok |-> TRUE, store |-> st \cup {row}]

Ok200 == Http(200, [status |-> "ok"])

\* Python truthiness of an Optional[str] query parameter
Given(v) == v # None /\ StrLen(v) > 0

\* code points of the characters the model uses
Code(c) ==
    CASE c = NL -> 10
      [] c = "%" -> 37
      [] c = "+" -> 43
      [] c = "0" -> 48
      [] c = "1" -> 49
      [] c = "2" -> 50
      [] c = "3" -> 51
      [] c = "9" -> 57
      [] c = "H" -> 72
      [] c = "I" -> 73
      [] c = "_" -> 95
      [] c = "a" -> 97
      [] c = "h" -> 104
      [] c = "i" -> 105
      [] c = "m" -> 109
      [] c = "x" -> 120
      [] OTHER -> 1000

\* SQLite's BINARY collation: a < b byte by byte
RECURSIVE SeqLess(_, _)
SeqLess(a, b) ==
    IF b = <<>> THEN FALSE
    ELSE IF a = <<>> THEN TRUE
    ELSE IF Code(Head(a)) # Code(Head(b)) THEN Code(Head(a)) < Code(Head(b))
    ELSE SeqLess(Tail(a), Tail(b))
BinaryLess(s, t) == SeqLess(Chars(s), Chars(t))

\* lower() of an ASCII letter
Lower(c) == CASE c = "H" -> "h" [] c = "I" -> "i" [] OTHER -> c

\* SQLite LIKE: % is any run of characters, _ is any one character, every
\* other character matches itself without regard to ASCII case
RECURSIVE like(_, _)
like(t, p) ==
    IF p = <<>> THEN t = <<>>
    ELSE IF Head(p) = "%" THEN like(t, Tail(p)) \/ (t # <<>> /\ like(Tail(t), p))
    ELSE /\ t # <<>>
         /\ Head(p) = "_" \/ Lower(Head(p)) = Lower(Head(t))
         /\ like(Tail(t), Tail(p))

\* Message.text.ilike(pattern): NULL matches nothing
ilike(text, pattern) == text # None /\ like(Chars(text), pattern)

\* ORDER BY message_id ASC alone
order_by_message_id_only(r, s) == r = s \/ BinaryLess(r.message_id, s.message_id)

\* ORDER BY ts ASC, message_id ASC: r is at or before s
order_by(r, s) ==
    \/ r.ts < s.ts
    \/ r.ts = s.ts /\ (r.message_id = s.message_id \/ BinaryLess(r.message_id, s.message_id))

RECURSIVE Sorted(_)
Sorted(rows) ==
    IF rows = {} THEN <<>>
    ELSE LET first == CHOOSE r \in rows : \A s \in rows : order_by(r, s)
         IN  <<first>> \o Sorted(rows \ {first})

Min(a, b) == IF a < b THEN a ELSE b

\* the filters of GET /messages: each is applied when its parameter is truthy
filters(st, from_, since, q) ==
    LET f1 == IF Given(from_) THEN {r \in st : r.sender = from_} ELSE st
        f2 == IF since # None THEN {r \in f1 : r.ts >= since.wall} ELSE f1
    IN  IF Given(q) THEN {r \in f2 : ilike(r.text, <<"%">> \o Chars(q) \o <<"%">>)} ELSE f2

\* the filters OR-combined: a row passes when any supplied filter accepts it
list_messages_any_filter(st, limit, offset, from_, since, q) ==
    LET none == ~Given(from_) /\ since = None /\ ~Given(q)
        f3 == {r \in st :
                 \/ none
                 \/ Given(from_) /\ r.sender = from_
                 \/ since # None /\ r.ts >= since.wall
                 \/ Given(q) /\ ilike(r.text, <<"%">> \o Chars(q) \o <<"%">>)}
        ordered == Sorted(f3)
    IN  [data |-> SubSeq(ordered, offset + 1, Min(offset + limit, Len(ordered))),
         total |-> Cardinality(f3),
         limit |-> limit,
         offset |-> offset]

\* total counted on the page instead of on the filtered set
list_messages_total_of_page(st, limit, offset, from_, since, q) ==
    LET f3 == filters(st, from_, since, q)
        ordered == Sorted(f3)
        page == SubSeq(ordered, offset + 1, Min(offset + limit, Len(ordered)))
    IN  [data |-> page, total |-> Len(page), limit |-> limit, offset |-> offset]

\* GET /messages
list_messages(st, limit, offset, from_, since, q) ==
    LET f3 == filters(st, from_, since, q)
        ordered == Sorted(f3)
    IN  [data |-> SubSeq(ordered, offset + 1, Min(offset + limit, Len(ordered))),
         total |-> Cardinality(f3),
         limit |-> limit,
         offset |-> offset]

\* ------------------------------------------------------------ POST /webhook

\* The outcome of a handler step: the response (when next = "respond"), how
\* it was reached, and the store the step leaves.
Outcome(next, resp, via, st) == [next |-> next, resp |-> resp, via |-> via, store |-> st]

\* the row written as soon as its key fields are valid, before the text is
\* validated
ingest_message_precheck_early_write(secret, st, req) ==
    LET sv == SignatureValidator(secret, req)
        errs == model_validate_errors(req.body)
        early == [message_data(req.body) EXCEPT !.text = None]
    IN  IF sv # Passed THEN Outcome("respond", sv, "signature", st)
        ELSE IF json_loads(req.body) = "UnicodeDecodeError"
            THEN Outcome("respond", ServerError, "json", st)
        ELSE IF json_loads(req.body) = "JSONDecodeError"
            THEN Outcome("respond", Http(422, Detail("Invalid JSON")), "json", st)
        ELSE IF errs = {"text"}
            THEN Outcome("respond", Http(422, [detail |-> "validation error", fields |-> errs]),
                         "validation", db_commit(st, NewMessage(early, 0)).store)
        ELSE IF errs # {}
            THEN Outcome("respond", Http(422, [detail |-> "validation error", fields |-> errs]),
                         "validation", st)
        ELSE IF existing(st, message_data(req.body).message_id) # {}
            THEN Outcome("respond", Ok200, "existing", st)
        ELSE Outcome("insert", Ok200, "new", st)

\* get_validated_body and ingest_message up to the idempotency pre-check
ingest_message_precheck(secret, st, req) ==
    LET sv == SignatureValidator(secret, req)
        errs == model_validate_errors(req.body)
    IN  IF sv # Passed THEN Outcome("respond", sv, "signature", st)
        ELSE IF json_loads(req.body) = "UnicodeDecodeError"
            THEN Outcome("respond", ServerError, "json", st)
        ELSE IF json_loads(req.body) = "JSONDecodeError"
            THEN Outcome("respond", Http(422, Detail("Invalid JSON")), "json", st)
        ELSE IF errs # {}
            THEN Outcome("respond", Http(422, [detail |-> "validation error", fields |-> errs]),
                         "validation", st)
        ELSE IF existing(st, message_data(req.body).message_id) # {}
            THEN Outcome("respond", Ok200, "existing", st)
        ELSE Outcome("insert", Ok200, "new", st)

\* IntegrityError not caught: the losing insert surfaces as a server error
ingest_message_commit_uncaught(st, msg, utcnow) ==
    LET c == db_commit(st, NewMessage(msg, utcnow))
    IN  IF c.ok THEN Outcome("respond", Ok200, "inserted", c.store)
        ELSE Outcome("respond", ServerError, "constraint", c.store)

\* ingest_message from db.add on: the insert, with IntegrityError caught
ingest_message_commit(st, msg, utcnow) ==
    LET c == db_commit(st, NewMessage(msg, utcnow))
    IN  IF c.ok THEN Outcome("respond", Ok200, "inserted", c.store)
        ELSE Outcome("respond", Ok200, "constraint", c.store)

\* --------------------------------------------------------------- GET /stats

count_of(st, sender) == Cardinality({r \in st : r.sender = sender})

\* GROUP BY sender with count(message_id): the count of every sender
group_by_sender(st) == [s \in {r.sender : r \in st} |-> count_of(st, s)]

\* the top senders in increasing order of count
RECURSIVE top_senders_ascending(_, _, _)
top_senders_ascending(counts, among, n) ==
    IF n = 0 \/ among = {} THEN {<<>>}
    ELSE LET least == {s \in among : \A o \in among : counts[s] <= counts[o]}
         IN  UNION {{<<[from_ |-> s, count |-> counts[s]]>> \o rest :
                        rest \in top_senders_ascending(counts, among \ {s}, n - 1)} : s \in least}

\* ORDER BY count DESC LIMIT n over the groups: every sequence the engine
\* may return, senders with equal counts coming in any order
RECURSIVE top_senders(_, _, _)
top_senders(counts, among, n) ==
    IF n = 0 \/ among = {} THEN {<<>>}
    ELSE LET most == {s \in among : \A o \in among : counts[s] >= counts[o]}
         IN  UNION {{<<[from_ |-> s, count |-> counts[s]]>> \o rest :
                        rest \in top_senders(counts, among \ {s}, n - 1)} : s \in most}

\* a datetime read back from the store: wall-clock fields, no offset
Naive(wall) == [wall |-> wall]
\* SELECT min(ts), SELECT max(ts): NULL over no rows
func_min(st) == IF st = {} THEN None ELSE Naive(CHOOSE t \in {r.ts : r \in st} : \A r \in st : t <= r.ts)
func_max(st) == IF st = {} THEN None ELSE Naive(CHOOSE t \in {r.ts : r \in st} : \A r \in st : t >= r.ts)

\* senders_count counted over rows instead of distinct senders
get_stats_count_rows(st, top) ==
    [total_messages |-> Cardinality(st),
     senders_count |-> Cardinality(st),
     messages_per_sender |-> top,
     first_message_ts |-> func_min(st),
     last_message_ts |-> func_max(st)]

\* GET /stats, top being the answer to the top-senders query
get_stats(st, top) ==
    [total_messages |-> Cardinality(st),
     senders_count |-> Cardinality({r.sender : r \in st}),
     messages_per_sender |-> top,
     first_message_ts |-> func_min(st),
     last_message_ts |-> func_max(st)]

\* ------------------------------------------------------- GET /health/ready

\* what connecting and running SELECT 1 comes to
Probes == {"ok", "raises"}
check_db_connection(probe) == probe = "ok"

\* the secret is not looked at
readiness_database_only(secret, probe) ==
    LET db_ok == check_db_connection(probe)
        checks == [database |-> IF db_ok THEN "ok" ELSE "failed",
                   webhook_secret |-> "ok"]
    IN  IF db_ok
        THEN Http(200, [status |-> "ok", checks |-> checks])
        ELSE Http(503, [status |-> "not ready", checks |-> checks])

readiness(secret, probe) ==
    LET db_ok == check_db_connection(probe)
        secret_ok == is_webhook_secret_configured(secret)
        checks == [database |-> IF db_ok THEN "ok" ELSE "failed",
                   webhook_secret |-> IF secret_ok THEN "ok" ELSE "not configured"]
    IN  IF db_ok /\ secret_ok
        THEN Http(200, [status |-> "ok", checks |-> checks])
        ELSE Http(503, [status |-> "not ready", checks |-> checks])

\* -------------------------------------------------------- Metrics Collector

NoMetrics == [http_requests_total |-> <<>>, http_request_duration_seconds |-> <<>>]

\* f'{method}_{path}_{status_code}' and f'{method}_{path}'
CounterKey(method, path, status_code) == <<method, "_", path, "_", status_code>>
DurationKey(method, path) == <<method, "_", path>>

dict_get(d, k, default) == IF k \in DOMAIN d THEN d[k] ELSE default
dict_set(d, k, v) == [x \in DOMAIN d \cup {k} |-> IF x = k THEN v ELSE d[x]]

\* a full buffer keeps its oldest samples and drops the new one
record_request_keep_oldest(m, method, path, status_code, duration) ==
    LET key == CounterKey(method, path, status_code)
        duration_key == DurationKey(method, path)
        durations == Append(dict_get(m.http_request_duration_seconds, duration_key, <<>>), duration)
        kept == IF Len(durations) > MaxDurations THEN SubSeq(durations, 1, MaxDurations) ELSE durations
    IN  [http_requests_total |->
            dict_set(m.http_requests_total, key, dict_get(m.http_requests_total, key, 0) + 1),
         http_request_duration_seconds |->
            dict_set(m.http_request_duration_seconds, duration_key, kept)]

record_request(m, method, path, status_code, duration) ==
    LET key == CounterKey(method, path, status_code)
        duration_key == DurationKey(method, path)
        durations == Append(dict_get(m.http_request_duration_seconds, duration_key, <<>>), duration)
        kept == IF Len(durations) > MaxDurations
                THEN SubSeq(durations, Len(durations) - MaxDurations + 1, Len(durations))
                ELSE durations
    IN  [http_requests_total |->
            dict_set(m.http_requests_total, key, dict_get(m.http_requests_total, key, 0) + 1),
         http_request_duration_seconds |->
            dict_set(m.http_request_duration_seconds, duration_key, kept)]

\* the builtin sum over a list
RECURSIVE sum(_)
sum(seq) ==
    IF Len(seq) = 0 THEN 0
    ELSE IF Len(seq) = 1 THEN seq[1]
    ELSE LET half == Len(seq) \div 2
         IN  sum(SubSeq(seq, 1, half)) + sum(SubSeq(seq, half + 1, Len(seq)))

\* f'{total:.6f}': the number the text denotes, total rounded to a whole
\* microsecond (the model's sums never fall half way)
format_6f(total) == ((total + 5) \div 10) * 10

\* the report gives the number of requests counted for the method and path
\* as the duration count
generate_prometheus_metrics_count_requests(m) ==
    {[name |-> "app_info", value |-> 1]}
        \cup {[name |-> "http_requests_total", method |-> key[1], path |-> key[3],
               status |-> key[5], value |-> m.http_requests_total[key]] :
                 key \in DOMAIN m.http_requests_total}
        \cup UNION {LET durations == m.http_request_duration_seconds[key]
                        counted == {k \in DOMAIN m.http_requests_total : k[1] = key[1] /\ k[3] = key[3]}
                    IN  IF durations = <<>> THEN {}
                        ELSE {[name |-> "http_request_duration_seconds_sum", method |-> key[1],
                               path |-> key[3], value |-> format_6f(sum(durations))],
                              [name |-> "http_request_duration_seconds_count", method |-> key[1],
                               path |-> key[3],
                               value |-> BagCardinality([k \in counted |-> m.http_requests_total[k]])]} :
                     key \in DOMAIN m.http_request_duration_seconds}

\* the samples of the text report (startup time left out)
generate_prometheus_metrics(m) ==
    {[name |-> "app_info", value |-> 1]}
        \cup {[name |-> "http_requests_total", method |-> key[1], path |-> key[3],
               status |-> key[5], value |-> m.http_requests_total[key]] :
                 key \in DOMAIN m.http_requests_total}
        \cup UNION {LET durations == m.http_request_duration_seconds[key]
                    IN  IF durations = <<>> THEN {}
                        ELSE {[name |-> "http_request_duration_seconds_sum", method |-> key[1],
                               path |-> key[3], value |-> format_6f(sum(durations))],
                              [name |-> "http_request_duration_seconds_count", method |-> key[1],
                               path |-> key[3], value |-> Len(durations)]} :
                     key \in DOMAIN m.http_request_duration_seconds}

\* MetricsMiddleware.dispatch: _metrics after a request. call_next raises
\* what the route left uncaught, and then nothing is recorded; the caller
\* gets ServerError from the layer outside.
dispatch(m, method, path, resp, duration) ==
    IF path = "/metrics" THEN m
    ELSE IF resp = ServerError THEN m
    ELSE record_request(m, method, path, resp.status, duration)

\* preemptive scheduling: a handler may be suspended anywhere
yields_anywhere(at) == TRUE

\* the event loop: a handler in dispatch gives way to the others only while
\* it has no request or waits in `await call_next(request)`; from there to
\* the end of record_request nothing is awaited
yields(at) == at \in {"idle", "awaiting"}

\* ------------------------------------------------------------------- state

VARIABLES
    webhook_secret,  \* Settings.webhook_secret, fixed for the process
    store,           \* the rows of the messages table
    pc,              \* per handler: "idle" or "insert" (pre-check done)
    pending,         \* per handler: the request it is serving
    now,             \* the wall clock
    last,            \* the last completed POST /webhook: request and response
    listing,         \* the last GET /messages: parameters and response
    stats,           \* the last GET /stats response
    health,          \* the last GET /health/ready: what it found and its response
    metrics,         \* _metrics: the request counters and the duration buffers
    completed,       \* every request answered so far: a bag of (method, path, status)
    samples          \* every duration handed to record_request so far, per
                     \* (method, path) in arrival order

vars ==
    <<webhook_secret, store, pc, pending, now, last, listing, stats, health, metrics, completed, samples>>

Workers == 1..NumWorkers
NoReq == [none |-> TRUE]
Request(sig, body) == [sig |-> sig, body |-> body]
Completed(req, out) == [req |-> req, status |-> out.resp.status, body |-> out.resp.body, via |-> out.via]

\* ------------------------------------------------------------------ inputs

TheSecret == "s1"
OtherSecret == "s2"

Chr(seq) == Str(seq, 0)
M1 == <<"m", "1">>
M2 == <<"m", "2">>
P12 == <<"+", "1", "2">>
P13 == <<"+", "1", "3">>
P19 == <<"+", "1", "9">>
T10Z == <<"2025-01-15T10:00:00", "Z">>
T11Z == <<"2025-01-15T11:00:00", "Z">>
Hi == <<"H", "i">>

Payload(id, from, to, ts, text) ==
    [k |-> "object", message_id |-> id, from |-> from, to |-> to, ts |-> ts, text |-> text]
Undecodable == [k |-> "undecodable"]
Malformed == [k |-> "malformed"]
NonObject == [k |-> "nonobject"]

Signed(body) == Request(compute_signature(TheSecret, body), body)

\* well-formed payloads: two ids, each with two senders and timestamps
BasePayloads ==
    {Payload(JStr(id, 0), JStr(v[1], 0), JStr(P13, 0), JStr(v[2], 0), JStr(Hi, 0)) :
        id \in {M1, M2}, v \in {<<P12, T10Z>>, <<P19, T11Z>>}}
BasePayload == Payload(JStr(M1, 0), JStr(P12, 0), JStr(P13, 0), JStr(T10Z, 0), JStr(Hi, 0))

ConcRequests ==
    {Signed(p) : p \in BasePayloads}
        \cup {Request(Literal(<<"b", "a", "d">>), BasePayload),
              Signed([BasePayload EXCEPT !.from = JStr(<<"1", "2">>, 0)])}

\* the headers a caller can send with a body
HeadersFor(body) ==
    {NoHeader,
     Literal(<<>>),
     Literal(<<"b", "a", "d">>),
     Literal(<<"u00e9">>),
     compute_signature(TheSecret, body),
     compute_signature(OtherSecret, body),
     compute_signature("", body),
     compute_signature(TheSecret, NonObject)}

Digits(n) == [i \in 1..n |-> "2"]

\* values a caller can put in a field, around the edges of each validator
MessageIdValues ==
    {JAbsent, JNull, JNum(1), JStr(<<>>, 0), JStr(<<>>, MessageIdMaxLength),
     JStr(<<>>, MessageIdMaxLength + 1)}
PhoneValues ==
    {JAbsent, JNull, JNum(0), JNum(12), JStr(<<>>, 0),
     JStr(<<"1", "2">>, 0), JStr(<<"+", "1">>, 0), JStr(<<"+", "0", "2">>, 0),
     JStr(<<"+", "1", "a">>, 0), JStr(<<"+", "1", "2">>, 1),
     JStr(<<"+", "1", "2", NL>>, 0), JStr(<<"+", "1", "2", NL, NL>>, 0),
     JStr(<<"+", "1", "u0663">>, 0),
     JStr(<<"+", "1">> \o Digits(E164MaxTail), 0),
     JStr(<<"+", "1">> \o Digits(E164MaxTail + 1), 0)}
TsValues ==
    {JAbsent, JNull, JNum(20), JStr(T11Z, 0),
     JStr(<<"2025-01-15T10:00:00">>, 0),
     JStr(<<"2025-01-15T10:00:00", "z">>, 0),
     JStr(<<"2025-01-15T10:00:00", "+05:30">>, 0),
     JStr(<<"2025-01-15T10:00:00", "Z", "Z">>, 0),
     JStr(<<"g", "a", "r", "b", "a", "g", "e", "Z">>, 0),
     JStr(<<"Z">>, 0)}
TextValues ==
    {JAbsent, JNull, JNum(5), JStr(<<>>, 0), JStr(<<>>, TextMaxLength),
     JStr(<<>>, TextMaxLength + 1)}

EdgePayloads ==
    {[BasePayload EXCEPT !.message_id = v] : v \in MessageIdValues}
        \cup {[BasePayload EXCEPT !.from = v] : v \in PhoneValues}
        \cup {[BasePayload EXCEPT !.to = v] : v \in PhoneValues}
        \cup {[BasePayload EXCEPT !.ts = v] : v \in TsValues}
        \cup {[BasePayload EXCEPT !.text = v] : v \in TextValues}
        \cup {BasePayload}

SigBodies == {BasePayload, [BasePayload EXCEPT !.from = JStr(<<"1", "2">>, 0)], Malformed, Undecodable}

EdgeRequests ==
    {Signed(b) : b \in EdgePayloads \cup {Undecodable, Malformed, NonObject}}
        \cup UNION {{Request(h, b) : h \in HeadersFor(b)} : b \in SigBodies}

\* a store for the statistics: the first two senders of the fleet have sent
\* one message each and sender k beyond them k-1 messages, so that the
\* counts tie at the low end only
Digit == <<"0", "1", "2", "3", "4", "5", "6", "7", "8", "9">>
FleetPhone(k) == <<"+", "2", Digit[(k \div 10) + 1], Digit[(k % 10) + 1]>>
FleetId(k, j) ==
    <<"f", Digit[(k \div 10) + 1], Digit[(k % 10) + 1], "-", Digit[(j \div 10) + 1], Digit[(j % 10) + 1]>>
FleetPayloads(n) ==
    UNION {{Payload(JStr(FleetId(k, j), 0), JStr(FleetPhone(k), 0), JStr(P13, 0), JStr(T10Z, 0), JStr(Hi, 0)) :
                j \in 1..(IF k <= 2 THEN 1 ELSE k - 1)} : k \in 1..n}
FleetStore(n) == {NewMessage(message_data(p), 0) : p \in FleetPayloads(n)}
T09Z == <<"2025-01-15T09:00:00", "Z">>
\* an earlier message from a new sender and a later one from the first of
\* the fleet
StatsPayloads ==
    {Payload(JStr(M1, 0), JStr(P12, 0), JStr(P13, 0), JStr(T09Z, 0), JStr(Hi, 0)),
     Payload(JStr(M2, 0), JStr(FleetPhone(1), 0), JStr(P13, 0), JStr(T11Z, 0), JAbsent)}

\* requests that end 200, 401, 422 and in an uncaught TypeError
MeteredRequests ==
    {Signed(BasePayload),
     Request(Literal(<<"b", "a", "d">>), BasePayload),
     Signed(Malformed),
     Request(Literal(<<"u00e9">>), BasePayload)}
\* what the middleware's clock can measure for a request: 0.4 and 2
\* microseconds
Durations == {4, 20}
\* requests served before a run that starts one short of a full buffer
WarmRequests == MaxDurations - 1

\* payloads for the listing: a third id, with no text
M3 == <<"m", "3">>
ListPayloads ==
    BasePayloads \cup {Payload(JStr(M3, 0), JStr(P19, 0), JStr(P13, 0), JStr(T10Z, 0), JAbsent)}

\* query parameters of GET /messages; limit and offset are <<>> when the
\* caller leaves them out
Limits == {<<>>, <<MinLimit>>, <<2>>}
Offsets == {<<>>, <<1>>}
FromParams == {None, Chr(<<>>), Chr(P12), Chr(P19)}
\* 11:00Z, and 15:30+05:30 which is 10:00Z
SinceParams == {None, DateTime(22, 0), DateTime(31, 11)}
QParams == {None, Chr(<<"h">>), Chr(<<"%">>)}

QueryParams(limit, offset, from_, since, q) ==
    [limit |-> limit, offset |-> offset, from_ |-> from_, since |-> since, q |-> q]

\* every combination of filters on the default page, and every page under a
\* few filters
ListParams ==
    {QueryParams(<<>>, <<>>, f, t, q) : f \in FromParams, t \in SinceParams, q \in QParams}
        \cup {QueryParams(l, o, f, t, q) :
                l \in Limits, o \in Offsets, f \in {None, Chr(P19)}, t \in {None},
                q \in {None, Chr(<<"h">>)}}

\* ----------------------------------------------------------------- actions

Idle(w) == pc[w] = "idle"

\* a handler receives a request and runs to its response or to the pre-check
Receive(w, req) ==
    /\ Idle(w)
    /\ LET out == ingest_message_precheck(webhook_secret, store, req)
       IN  /\ store' = out.store
           /\ IF out.next = "insert"
              THEN /\ pc' = [pc EXCEPT ![w] = "insert"]
                   /\ pending' = [pending EXCEPT ![w] = req]
                   /\ UNCHANGED last
              ELSE /\ last' = Completed(req, out)
                   /\ UNCHANGED <<pc, pending>>
    /\ UNCHANGED <<webhook_secret, now, listing, stats, health>>

\* a handler past the pre-check inserts its row and responds
Insert(w) ==
    /\ pc[w] = "insert"
    /\ LET out == ingest_message_commit(store, message_data(pending[w].body), now)
       IN  /\ store' = out.store
           /\ last' = Completed(pending[w], out)
    /\ pc' = [pc EXCEPT ![w] = "idle"]
    /\ pending' = [pending EXCEPT ![w] = NoReq]
    /\ UNCHANGED <<webhook_secret, now, listing, stats, health>>

\* Query(default): the value given, or the default
query_param(given, default) == IF given = <<>> THEN default ELSE given[1]

\* GET /messages with valid query parameters
GetMessages(limit, offset, from_, since, q) ==
    /\ listing' = [from_ |-> from_, since |-> since, q |-> q, limit |-> limit, offset |-> offset,
                   resp |-> list_messages(store, query_param(limit, DefaultLimit),
                                          query_param(offset, DefaultOffset), from_, since, q)]
    /\ UNCHANGED <<webhook_secret, store, pc, pending, now, last, stats, health>>

\* GET /stats
GetStats ==
    /\ \E top \in top_senders(group_by_sender(store), {r.sender : r \in store}, TopSendersLimit) :
            stats' = get_stats(store, top)
    /\ UNCHANGED <<webhook_secret, store, pc, pending, now, last, listing, health>>

\* the fields of the response in the order get_stats queries them
StatsFields ==
    <<"total_messages", "senders_count", "messages_per_sender", "first_message_ts", "last_message_ts">>

\* GET /stats one query at a time: the session opens no transaction around
\* its SELECTs, so every query reads the rows committed when it runs; the
\* last one builds the response
StatsQuery(w) ==
    /\ pc[w] \in {"idle", "stats"}
    /\ LET partial == IF pc[w] = "idle" THEN <<>> ELSE pending[w]
           field == StatsFields[Cardinality(DOMAIN partial) + 1]
           tops == IF field = "messages_per_sender"
                   THEN top_senders(group_by_sender(store), {r.sender : r \in store}, TopSendersLimit)
                   ELSE {<<>>}
       IN  \E top \in tops :
            LET read == dict_set(partial, field, get_stats(store, top)[field])
            IN  IF Cardinality(DOMAIN read) < Len(StatsFields)
                THEN /\ pc' = [pc EXCEPT ![w] = "stats"]
                     /\ pending' = [pending EXCEPT ![w] = read]
                     /\ UNCHANGED stats
                ELSE /\ pc' = [pc EXCEPT ![w] = "idle"]
                     /\ pending' = [pending EXCEPT ![w] = NoReq]
                     /\ stats' = [total_messages |-> read["total_messages"],
                                  senders_count |-> read["senders_count"],
                                  messages_per_sender |-> read["messages_per_sender"],
                                  first_message_ts |-> read["first_message_ts"],
                                  last_message_ts |-> read["last_message_ts"]]
    /\ UNCHANGED <<webhook_secret, store, now, last, listing, health>>

\* GET /health/live: always 200, nothing read or written
GetLive == UNCHANGED <<webhook_secret, store, pc, pending, now, last, listing, stats, health>>

\* the probe leaves a row behind in the messages table
GetReady_writes_probe_row(probe) ==
    /\ health' = [probe |-> probe, resp |-> readiness(webhook_secret, probe)]
    /\ store' = store \cup {NewMessage(message_data(BasePayload), now)}
    /\ UNCHANGED <<webhook_secret, pc, pending, now, last, listing, stats>>

\* GET /health/ready
GetReady(probe) ==
    /\ health' = [probe |-> probe, resp |-> readiness(webhook_secret, probe)]
    /\ UNCHANGED <<webhook_secret, store, pc, pending, now, last, listing, stats>>

\* GET /metrics: the counters rendered as text, nothing written
GetMetrics == UNCHANGED <<webhook_secret, store, pc, pending, now, last, listing, stats, health>>

\* the middleware around a route that answers resp in this step
Answered(method, path, resp) ==
    /\ LET before == IF BagCardinality(completed) >= WarmRequests THEN WarmRequests ELSE 0
       IN  BagCardinality(completed) - before < MaxRequests
    /\ completed' = completed (+) SetToBag({<<method, path, resp.status>>})
    /\ \E duration \in Durations :
            /\ metrics' = dispatch(metrics, method, path, resp, duration)
            /\ samples' = IF path = "/metrics" \/ resp = ServerError THEN samples
                          ELSE dict_set(samples, DurationKey(method, path),
                                        Append(dict_get(samples, DurationKey(method, path), <<>>), duration))

\* dispatch as far as `await call_next(request)`, for GET /health/ready
CallNext(w, probe) ==
    /\ pc[w] = "idle"
    /\ \A o \in Workers \ {w} : yields(pc[o])
    /\ BagCardinality(completed) + Cardinality({o \in Workers : pc[o] # "idle"}) < MaxRequests
    /\ pc' = [pc EXCEPT ![w] = "awaiting"]
    /\ pending' = [pending EXCEPT ![w] = [probe |-> probe]]
    /\ UNCHANGED <<webhook_secret, store, now, last, listing, stats, health, metrics, completed, samples>>

\* the route has answered; dispatch goes on into record_request and reads
\* the counter
RecordRead(w, duration) ==
    /\ pc[w] = "awaiting"
    /\ \A o \in Workers \ {w} : yields(pc[o])
    /\ LET resp == readiness(webhook_secret, pending[w].probe)
           key == CounterKey("GET", "/health/ready", resp.status)
       IN  /\ health' = [probe |-> pending[w].probe, resp |-> resp]
           /\ pending' = [pending EXCEPT ![w] =
                            [resp |-> resp, duration |-> duration,
                             seen |-> dict_get(metrics.http_requests_total, key, 0)]]
    /\ pc' = [pc EXCEPT ![w] = "recording"]
    /\ UNCHANGED <<webhook_secret, store, now, last, listing, stats, metrics, completed, samples>>

\* the rest of record_request: the counter written from what was read, the
\* sample appended; the response goes out
RecordWrite(w) ==
    /\ pc[w] = "recording"
    /\ \A o \in Workers \ {w} : yields(pc[o])
    /\ LET r == pending[w]
           key == CounterKey("GET", "/health/ready", r.resp.status)
           dkey == DurationKey("GET", "/health/ready")
           read == [metrics EXCEPT !.http_requests_total = dict_set(@, key, r.seen)]
       IN  /\ metrics' = dispatch(read, "GET", "/health/ready", r.resp, r.duration)
           /\ completed' = completed (+) SetToBag({<<"GET", "/health/ready", r.resp.status>>})
           /\ samples' = dict_set(samples, dkey, Append(dict_get(samples, dkey, <<>>), r.duration))
    /\ pc' = [pc EXCEPT ![w] = "idle"]
    /\ pending' = [pending EXCEPT ![w] = NoReq]
    /\ UNCHANGED <<webhook_secret, store, now, last, listing, stats, health>>

\* time passes
Tick ==
    /\ now < MaxNow
    /\ now' = now + 1
    /\ UNCHANGED <<webhook_secret, store, pc, pending, last, listing, stats, health, metrics, completed, samples>>

NoneYet == [none |-> TRUE]

\* the request counters are followed where the routes are taken through the
\* middleware; the other specifications leave the middleware out
Unmetered == UNCHANGED <<metrics, completed, samples>>

Init ==
    /\ webhook_secret = Secret(TheSecret)
    /\ store = {}
    /\ pc = [w \in Workers |-> "idle"]
    /\ pending = [w \in Workers |-> NoReq]
    /\ now = 0
    /\ last = NoneYet
    /\ listing = NoneYet
    /\ stats = NoneYet
    /\ health = NoneYet
    /\ metrics = NoMetrics
    /\ completed = EmptyBag
    /\ samples = <<>>

Next ==
    \/ \E w \in Workers : \E req \in ConcRequests : Receive(w, req) /\ Unmetered
    \/ \E w \in Workers : Insert(w) /\ Unmetered
    \/ Tick

Spec == Init /\ [][Next]_vars

\* One handler at a time, one clock reading, every kind of request, under
\* each way the secret can be configured.
InitValidate ==
    /\ webhook_secret \in {NoSecret, Secret(""), Secret(TheSecret)}
    /\ store = {}
    /\ pc = [w \in Workers |-> "idle"]
    /\ pending = [w \in Workers |-> NoReq]
    /\ now = 0
    /\ last = NoneYet
    /\ listing = NoneYet
    /\ stats = NoneYet
    /\ health = NoneYet
    /\ metrics = NoMetrics
    /\ completed = EmptyBag
    /\ samples = <<>>

NextValidate ==
    \/ \E req \in EdgeRequests : Receive(1, req) /\ Unmetered
    \/ Insert(1) /\ Unmetered

SpecValidate == InitValidate /\ [][NextValidate]_vars

\* Messages are ingested one at a time and listed in between.
NextList ==
    \/ \E p \in ListPayloads : Receive(1, Signed(p)) /\ Unmetered
    \/ Insert(1) /\ Unmetered
    \/ \E p \in ListParams : GetMessages(p.limit, p.offset, p.from_, p.since, p.q) /\ Unmetered

SpecList == Init /\ [][NextList]_vars

\* Messages are ingested one at a time into a store that already holds the
\* messages of the first senders of the fleet, and the statistics are read
\* in between.
InitStats ==
    /\ webhook_secret = Secret(TheSecret)
    /\ store \in {FleetStore(n) : n \in 0..FleetSize}
    /\ pc = [w \in Workers |-> "idle"]
    /\ pending = [w \in Workers |-> NoReq]
    /\ now = 0
    /\ last = NoneYet
    /\ listing = NoneYet
    /\ stats = NoneYet
    /\ health = NoneYet
    /\ metrics = NoMetrics
    /\ completed = EmptyBag
    /\ samples = <<>>

NextStats ==
    \/ \E p \in StatsPayloads : Receive(1, Signed(p)) /\ Unmetered
    \/ Insert(1) /\ Unmetered
    \/ GetStats /\ Unmetered

SpecStats == InitStats /\ [][NextStats]_vars

\* The statistics read query by query by the handlers of one server process
\* while a handler of another process on the same database ingests messages.
InitQueries ==
    /\ webhook_secret = Secret(TheSecret)
    /\ store \in {FleetStore(0), FleetStore(FleetSize)}
    /\ pc = [w \in Workers |-> "idle"]
    /\ pending = [w \in Workers |-> NoReq]
    /\ now = 0
    /\ last = NoneYet
    /\ listing = NoneYet
    /\ stats = NoneYet
    /\ health = NoneYet
    /\ metrics = NoMetrics
    /\ completed = EmptyBag
    /\ samples = <<>>

NextQueries ==
    \/ \E p \in StatsPayloads : Receive(1, Signed(p)) /\ Unmetered
    \/ Insert(1) /\ Unmetered
    \/ \E w \in Workers \ {1} : StatsQuery(w) /\ Unmetered

SpecQueries == InitQueries /\ [][NextQueries]_vars

\* The probes and the request counters: one handler at a time under each way
\* the secret can be configured, every request passing through the
\* middleware.
WebhookOps ==
    \E req \in MeteredRequests :
        /\ Receive(1, req)
        /\ IF pc'[1] = "insert" THEN Unmetered
           ELSE Answered("POST", "/webhook", Http(last'.status, last'.body))
CommitOps == Insert(1) /\ Answered("POST", "/webhook", Http(last'.status, last'.body))
ReadyOps == \E probe \in Probes : GetReady(probe) /\ Answered("GET", "/health/ready", health'.resp)
MetricsOps == GetMetrics /\ Answered("GET", "/metrics", Http(200, "text"))

NextOps == WebhookOps \/ CommitOps \/ ReadyOps \/ MetricsOps

SpecOps == InitValidate /\ [][NextOps]_vars

\* The probes and the counters again, from a fresh process and from one
\* that has answered GET /health/ready WarmRequests times.
InitBuffer ==
    \/ Init
    \/ /\ webhook_secret = Secret(TheSecret)
       /\ store = {}
       /\ pc = [w \in Workers |-> "idle"]
       /\ pending = [w \in Workers |-> NoReq]
       /\ now = 0
       /\ last = NoneYet
       /\ listing = NoneYet
       /\ stats = NoneYet
       /\ health = [probe |-> "ok", resp |-> readiness(webhook_secret, "ok")]
       /\ LET warm == [i \in 1..WarmRequests |-> IF i % 2 = 0 THEN 4 ELSE 20]
          IN  /\ metrics = [http_requests_total |->
                                (CounterKey("GET", "/health/ready", 200) :> WarmRequests),
                            http_request_duration_seconds |->
                                (DurationKey("GET", "/health/ready") :> warm)]
              /\ completed = (<<"GET", "/health/ready", 200>> :> WarmRequests)
              /\ samples = (DurationKey("GET", "/health/ready") :> warm)

SpecBuffer == InitBuffer /\ [][NextOps]_vars

\* Every route behind the middleware, one handler at a time.
NextReads ==
    \/ WebhookOps
    \/ CommitOps
    \/ ReadyOps
    \/ MetricsOps
    \/ \E p \in {x \in ListParams : x.since = None /\ x.q = None /\ x.offset = <<>>} :
            /\ GetMessages(p.limit, p.offset, p.from_, p.since, p.q)
            /\ Answered("GET", "/messages", Http(200, listing'.resp))
    \/ GetStats /\ Answered("GET", "/stats", Http(200, stats'))
    \/ GetLive /\ Answered("GET", "/health/live", Http(200, [status |-> "ok"]))

SpecReads == InitValidate /\ [][NextReads]_vars

\* Handlers on one event loop, each taking a GET /health/ready request
\* through the middleware in three steps.
NextRecord ==
    \/ \E w \in Workers : \E probe \in Probes : CallNext(w, probe)
    \/ \E w \in Workers : \E duration \in Durations : RecordRead(w, duration)
    \/ \E w \in Workers : RecordWrite(w)

SpecRecord == Init /\ [][NextRecord]_vars

\* ------------------------------------------------------- words of the claims

\* the signature is the hex HMAC-SHA256 of the raw body under the configured secret
CorrectlySigned(req) ==
    /\ is_webhook_secret_configured(webhook_secret)
    /\ req.sig = compute_signature(webhook_secret.val, req.body)

\* a full match of +[1-9][0-9]{1,14}
FullE164(v) ==
    /\ v.t = "str"
    /\ LET c == Chars(StrOf(v))
       IN  /\ Len(c) >= 3 /\ Len(c) <= 16
           /\ c[1] = "+"
           /\ c[2] \in {"1", "2", "3", "4", "5", "6", "7", "8", "9"}
           /\ \A i \in 3..Len(c) : c[i] \in AsciiDigits

\* parses as a timestamp and the raw text ends with the literal Z
UtcZText(v) == v.t = "str" /\ EndsWithZ(StrOf(v)) /\ parse_datetime(v).ok

ValidMessageId(v) == v.t = "str" /\ StrLen(StrOf(v)) >= 1 /\ StrLen(StrOf(v)) <= 255
ValidText(v) == v.t \in {"absent", "null"} \/ (v.t = "str" /\ StrLen(StrOf(v)) <= 4096)

ValidPayload(body) ==
    /\ body.k = "object"
    /\ ValidMessageId(body.message_id)
    /\ FullE164(body.from)
    /\ FullE164(body.to)
    /\ UtcZText(body.ts)
    /\ ValidText(body.text)

Responded == last # NoneYet
OkBody == [status |-> "ok"]
RowsOf(id) == {r \in store : r.message_id = id}
\* the row a payload is stored as, at some clock reading
StoredAs(body) == {NewMessage(message_data(body), t) : t \in 0..MaxNow}

\* ------------------------------------------------------------------ claims

\* C1: every valid, correctly signed payload is answered 200 {"status":"ok"}
\* and leaves exactly one row for its message_id, the first time and every
\* later time; the store never holds two rows with one message_id.
C1_IdempotentIngest ==
    /\ \A r, s \in store : r.message_id = s.message_id => r = s
    /\ (Responded /\ CorrectlySigned(last.req) /\ ValidPayload(last.req.body))
          => /\ last.status = 200
             /\ last.body = OkBody
             /\ Cardinality(RowsOf(StrOf(last.req.body.message_id))) = 1

\* P was stored, and P ingested again has been answered
C1_Witness ==
    /\ Responded
    /\ CorrectlySigned(last.req)
    /\ ValidPayload(last.req.body)
    /\ last.via = "existing"
    /\ last.status = 200
    /\ StoredAs(last.req.body) \cap store # {}

\* C2: a signature text that is not the HMAC of the body under the
\* configured secret is answered 401 "invalid signature", whatever the body.
C2_WrongSignatureIs401 ==
    (Responded /\ last.req.sig.h # "none" /\ ~CorrectlySigned(last.req))
        => last.status = 401 /\ last.body = Detail("invalid signature")

\* C3: a missing or empty header, an unconfigured secret and a mismatch all
\* give the one response 401 "invalid signature".
C3_FailuresIndistinguishable ==
    (Responded /\ (HeaderFalsy(last.req.sig)
                     \/ ~is_webhook_secret_configured(webhook_secret)
                     \/ ~CorrectlySigned(last.req)))
        => Http(last.status, last.body) = InvalidSignature

\* C4: a handler that passed the pre-check answers 200 {"status":"ok"}
\* whether its insert succeeds or hits the uniqueness constraint; the insert
\* succeeds exactly when no row with the message_id exists, and afterwards
\* there is exactly one such row and no other row has changed.
CommitStepOk(w) ==
    LET id == message_data(pending[w].body).message_id
    IN  /\ last'.req = pending[w]
        /\ last'.status = 200
        /\ last'.body = OkBody
        /\ Cardinality({r \in store' : r.message_id = id}) = 1
        /\ IF RowsOf(id) = {}
           THEN last'.via = "inserted" /\ store \subseteq store'
           ELSE last'.via = "constraint" /\ store' = store

C4_ConcurrentDuplicates ==
    [][\A w \in Workers : (pc[w] = "insert" /\ pc'[w] = "idle") => CommitStepOk(w)]_vars

\* a handler lost the race: its insert hit the constraint, it answered 200,
\* and the row is the other handler's
C4_Witness ==
    /\ Responded
    /\ last.via = "constraint"
    /\ last.status = 200
    /\ Cardinality(RowsOf(StrOf(last.req.body.message_id))) = 1
    /\ StoredAs(last.req.body) \cap store = {}

\* C5: a correctly signed payload whose from or to is not a full match of
\* +[1-9][0-9]{1,14} is answered 422 and stores no row.
C5_E164Rejected ==
    (Responded /\ CorrectlySigned(last.req) /\ last.req.body.k = "object"
        /\ (~FullE164(last.req.body.from) \/ ~FullE164(last.req.body.to)))
        => last.status = 422 /\ last.via # "inserted"

\* C6: a correctly signed payload whose ts is not a text that parses and
\* ends with Z is answered 422 and stores no row.
C6_TsMustEndWithZ ==
    (Responded /\ CorrectlySigned(last.req) /\ last.req.body.k = "object"
        /\ ~UtcZText(last.req.body.ts))
        => last.status = 422 /\ last.via # "inserted"

\* C7: a correctly signed payload whose message_id is empty or longer than
\* 255 characters, or whose text is longer than 4096 characters, is answered
\* 422; every stored row has a message_id of 1 to 255 characters and a text
\* that is absent or of at most 4096 characters.
C7_LengthLimits ==
    /\ (Responded /\ CorrectlySigned(last.req) /\ last.req.body.k = "object"
          /\ \/ (last.req.body.message_id.t = "str" /\ ~ValidMessageId(last.req.body.message_id))
             \/ (last.req.body.text.t = "str" /\ ~ValidText(last.req.body.text)))
          => last.status = 422
    /\ \A r \in store :
          /\ StrLen(r.message_id) >= 1 /\ StrLen(r.message_id) <= 255
          /\ r.text = None \/ StrLen(r.text) <= 4096

\* a text of 4096 characters and a message_id of 255 characters are stored,
\* and a text of 4097 characters has been refused
C7_Witness ==
    /\ Responded
    /\ CorrectlySigned(last.req)
    /\ last.req.body.k = "object"
    /\ last.req.body.text.t = "str"
    /\ StrLen(StrOf(last.req.body.text)) = 4097
    /\ last.status = 422
    /\ \E r \in store : r.text # None /\ StrLen(r.text) = 4096
    /\ \E r \in store : StrLen(r.message_id) = 255

\* C8: a step that answers a request with 401 or 422 leaves the store as it was.
C8_RejectionWritesNothing ==
    [][(pc' = pc /\ last' # NoneYet /\ last'.status \in {401, 422}) => store' = store]_vars

\* a correctly signed request has been answered 422 while the store held a row
C8_Witness ==
    /\ Responded
    /\ last.status = 422
    /\ last.via = "validation"
    /\ CorrectlySigned(last.req)
    /\ store # {}

\* C9: a stored row is never removed and never changed: every row of the
\* store is still the only row of its message_id after any step.
C9_StoredRowsImmutable ==
    [][\A r \in store : r \in store' /\ (\A s \in store' : s.message_id = r.message_id => s = r)]_vars

\* a valid request reused a stored message_id with other field values, was
\* answered 200, and the row still has the first writer's values
C9_Witness ==
    /\ Responded
    /\ CorrectlySigned(last.req)
    /\ ValidPayload(last.req.body)
    /\ last.status = 200
    /\ last.via \in {"existing", "constraint"}
    /\ \E r \in store :
          /\ r.message_id = StrOf(last.req.body.message_id)
          /\ r.sender # StrOf(last.req.body.from)
          /\ r.ts # message_data(last.req.body).ts.wall

\* C10: the rows of every GET /messages response are in increasing
\* (ts, message_id) order, whatever the filters and the page; no two of
\* them tie.
C10_ListingOrdered ==
    listing # NoneYet =>
        \A i, j \in 1..Len(listing.resp.data) :
            i < j =>
                LET a == listing.resp.data[i]
                    b == listing.resp.data[j]
                IN  a.ts < b.ts \/ (a.ts = b.ts /\ BinaryLess(a.message_id, b.message_id))

\* a page of three rows where a later message_id comes first by ts and two
\* rows share their ts
C10_Witness ==
    /\ listing # NoneYet
    /\ Len(listing.resp.data) = 3
    /\ listing.resp.data[1].ts = listing.resp.data[2].ts
    /\ BinaryLess(listing.resp.data[3].message_id, listing.resp.data[1].message_id)

\* ---- filters and pages of GET /messages ----

Rows(seq) == {seq[i] : i \in DOMAIN seq}
\* a GET /messages request is answered in this step
Listed == listing' # listing
DefaultPage(l) == l.limit = <<>> /\ l.offset = <<>>
\* the instant, in half hours, that a timestamp with an offset names
Instant(t) == t.wall - t.tz
\* needle occurs in text, letters compared without regard to case
Contains(text, needle) ==
    LET t == [i \in DOMAIN Chars(text) |-> Lower(Chars(text)[i])]
        n == [i \in DOMAIN Chars(needle) |-> Lower(Chars(needle)[i])]
    IN  \E i \in 0..(Len(t) - Len(n)) : SubSeq(t, i + 1, i + Len(n)) = n

\* C11: a GET /messages request whose only filter is from=X is answered
\* with exactly the stored rows whose sender is X, and total counts them.
C11_FromFilterExact ==
    [][(Listed /\ DefaultPage(listing') /\ listing'.from_ # None
            /\ listing'.since = None /\ listing'.q = None) =>
        LET expected == {r \in store : r.sender = listing'.from_}
        IN  /\ Rows(listing'.resp.data) = expected
            /\ listing'.resp.total = Cardinality(expected)]_vars

\* C12: a GET /messages request whose only filter is since=T is answered
\* with exactly the stored rows whose ts is at or after the instant T, and
\* total counts them.
C12_SinceFilterInclusive ==
    [][(Listed /\ DefaultPage(listing') /\ listing'.since # None
            /\ listing'.from_ = None /\ listing'.q = None) =>
        LET expected == {r \in store : r.ts >= Instant(listing'.since)}
        IN  /\ Rows(listing'.resp.data) = expected
            /\ listing'.resp.total = Cardinality(expected)]_vars

\* the rows a request with one filter alone is answered with; the whole
\* store when the filter is not supplied
AloneFrom(l) ==
    IF l.from_ = None THEN store
    ELSE Rows(list_messages(store, DefaultLimit, DefaultOffset, l.from_, None, None).data)
AloneSince(l) ==
    IF l.since = None THEN store
    ELSE Rows(list_messages(store, DefaultLimit, DefaultOffset, None, l.since, None).data)
AloneQ(l) ==
    IF l.q = None THEN store
    ELSE Rows(list_messages(store, DefaultLimit, DefaultOffset, None, None, l.q).data)

\* C13: the rows of a GET /messages response are the intersection of the
\* rows each supplied filter selects alone, and total counts them; with no
\* filter they are the whole store.
C13_FiltersConjunctive ==
    [][(Listed /\ DefaultPage(listing')) =>
        LET expected == AloneFrom(listing') \cap AloneSince(listing') \cap AloneQ(listing')
        IN  /\ Rows(listing'.resp.data) = expected
            /\ listing'.resp.total = Cardinality(expected)
            /\ (listing'.from_ = None /\ listing'.since = None /\ listing'.q = None)
                    => Rows(listing'.resp.data) = store]_vars

\* all three filters supplied, selecting some rows but fewer than the sender
\* filter would alone
C13_Witness ==
    /\ listing # NoneYet
    /\ DefaultPage(listing)
    /\ listing.from_ # None /\ listing.since # None /\ listing.q # None
    /\ listing.resp.total >= 1
    /\ listing.resp.total < Cardinality({r \in store : r.sender = listing.from_})

\* C14: a GET /messages request whose only filter is q is answered with
\* exactly the stored rows whose text contains q, every character of q
\* standing for itself and letters compared without regard to case.
C14_QueryIsLiteralSubstring ==
    [][(Listed /\ DefaultPage(listing') /\ listing'.q # None
            /\ listing'.from_ = None /\ listing'.since = None) =>
        LET expected == {r \in store : r.text # None /\ Contains(r.text, listing'.q)}
        IN  /\ Rows(listing'.resp.data) = expected
            /\ listing'.resp.total = Cardinality(expected)]_vars

\* how many rows of a set come before r in (ts, message_id) order
Rank(rows, r) == Cardinality({s \in rows : s # r /\ order_by(s, r)})
Max(a, b) == IF a > b THEN a ELSE b

\* C15: in a GET /messages response total is the size of the filtered set,
\* whatever the page; data holds the rows at positions offset to
\* offset+limit-1 of the filtered set in (ts, message_id) order, so
\* min(limit, max(0, total-offset)) of them; a request that names no limit
\* gets 50 and one that names no offset gets 0.
C15_TotalAndPage ==
    [][Listed =>
        LET l == listing'
            filtered == filters(store, l.from_, l.since, l.q)
        IN  /\ l.resp.total = Cardinality(filtered)
            /\ Len(l.resp.data) = Min(l.resp.limit, Max(0, l.resp.total - l.resp.offset))
            /\ \A i \in DOMAIN l.resp.data :
                    /\ l.resp.data[i] \in filtered
                    /\ Rank(filtered, l.resp.data[i]) = l.resp.offset + i - 1
            /\ l.limit = <<>> => l.resp.limit = 50
            /\ l.offset = <<>> => l.resp.offset = 0
            /\ l.limit # <<>> => l.resp.limit = l.limit[1]
            /\ l.offset # <<>> => l.resp.offset = l.offset[1]]_vars

\* the second of three rows asked for alone: a page shorter than total that
\* starts past the first row
C15_Witness ==
    /\ listing # NoneYet
    /\ listing.limit = <<1>> /\ listing.offset = <<1>>
    /\ listing.resp.total = 3
    /\ Len(listing.resp.data) = 1

\* ---- statistics ----

\* C16: a GET /stats response, read at store state S, reports the number
\* of rows of S, the number of distinct senders in S and the least and
\* greatest ts in S; over the empty store it reports 0, 0, an empty sender
\* list and null for both timestamps.
C16_StatsTotals ==
    [][stats' # stats =>
        /\ stats'.total_messages = Cardinality(store)
        /\ stats'.senders_count = Cardinality({r.sender : r \in store})
        /\ store # {} =>
                /\ stats'.first_message_ts # None /\ stats'.last_message_ts # None
                /\ \E r \in store : r.ts = stats'.first_message_ts.wall
                /\ \E r \in store : r.ts = stats'.last_message_ts.wall
                /\ \A r \in store : /\ stats'.first_message_ts.wall <= r.ts
                                     /\ r.ts <= stats'.last_message_ts.wall
        /\ store = {} =>
                /\ stats'.total_messages = 0
                /\ stats'.senders_count = 0
                /\ stats'.messages_per_sender = <<>>
                /\ stats'.first_message_ts = None
                /\ stats'.last_message_ts = None]_vars

\* more rows than senders, and a first timestamp before the last
C16_Witness ==
    /\ stats # NoneYet
    /\ stats.total_messages > stats.senders_count
    /\ stats.senders_count >= 2
    /\ stats.first_message_ts.wall < stats.last_message_ts.wall

\* C17: messages_per_sender of a GET /stats response lists min(10, number
\* of distinct senders) distinct senders, each with the number of stored
\* rows of that sender, in non-increasing order of count, and no sender
\* left out has more rows than a listed one.
C17_TopSenders ==
    [][stats' # stats =>
        LET top == stats'.messages_per_sender
            senders == {r.sender : r \in store}
            listed == {top[i].from_ : i \in DOMAIN top}
        IN  /\ Len(top) = Min(10, Cardinality(senders))
            /\ listed \subseteq senders
            /\ Cardinality(listed) = Len(top)
            /\ \A i \in DOMAIN top :
                    top[i].count = Cardinality({r \in store : r.sender = top[i].from_})
            /\ \A i, j \in DOMAIN top : i < j => top[i].count >= top[j].count
            /\ \A s \in senders \ listed : \A i \in DOMAIN top :
                    Cardinality({r \in store : r.sender = s}) <= top[i].count]_vars

\* more than ten senders stored and ten listed, the first with more rows
\* than the last
C17_Witness ==
    /\ stats # NoneYet
    /\ stats.senders_count > 10
    /\ Len(stats.messages_per_sender) = 10
    /\ stats.messages_per_sender[1].count > stats.messages_per_sender[10].count

\* ---- probes, statuses, counters ----

SecretConfigured == webhook_secret # NoSecret /\ webhook_secret # Secret("")

C19_WebhookStatuses == Responded => last.status \in {200, 401, 422}

\* C20: for every (method, path, status) with a path other than /metrics
\* the request counter equals the number of requests answered with that
\* method, path and status, server errors included; requests to /metrics
\* have no counter and no duration buffer.
C20_CountersMatchRequests ==
    /\ \A k \in BagToSet(completed) :
            k[2] # "/metrics" =>
                dict_get(metrics.http_requests_total, CounterKey(k[1], k[2], k[3]), 0)
                    = CopiesIn(k, completed)
    /\ \A key \in DOMAIN metrics.http_requests_total : key[3] # "/metrics"
    /\ \A key \in DOMAIN metrics.http_request_duration_seconds : key[3] # "/metrics"

\* ---- the Metrics Collector ----

\* C21: however the handlers that record metrics interleave, after n
\* recordings for a key its counter is n, and while no more than 1000
\* samples were recorded for a (method, path) its buffer holds them all.
C21_NoLostUpdate ==
    /\ \A k \in BagToSet(completed) :
            dict_get(metrics.http_requests_total, CounterKey(k[1], k[2], k[3]), 0)
                = CopiesIn(k, completed)
    /\ \A dkey \in DOMAIN samples :
            Len(samples[dkey]) <= 1000 =>
                dict_get(metrics.http_request_duration_seconds, dkey, <<>>) = samples[dkey]

\* two requests recorded under one key while another handler still waits
\* for its route
C21_Witness ==
    /\ \E w \in Workers : pc[w] = "awaiting"
    /\ \E key \in DOMAIN metrics.http_requests_total : metrics.http_requests_total[key] = 2

\* the last n items of a sequence
LastOf(seq, n) == IF Len(seq) > n THEN SubSeq(seq, Len(seq) - n + 1, Len(seq)) ELSE seq
\* the items of a sequence added up, value by value
RECURSIVE Weighted(_, _)
Weighted(seq, vals) ==
    IF vals = {} THEN 0
    ELSE LET v == CHOOSE x \in vals : TRUE
         IN  v * Cardinality({i \in DOMAIN seq : seq[i] = v}) + Weighted(seq, vals \ {v})
Total(seq) == Weighted(seq, {seq[i] : i \in DOMAIN seq})
Report == generate_prometheus_metrics(metrics)
Reported(name, dkey) ==
    {l.value : l \in {x \in Report : x.name = name /\ x.method = dkey[1] /\ x.path = dkey[3]}}
\* each buffer holds at most 1000 samples, the most recent ones recorded
\* for its key in arrival order
BufferIsMostRecent ==
    \A dkey \in DOMAIN samples :
        LET buffer == dict_get(metrics.http_request_duration_seconds, dkey, <<>>)
        IN  Len(buffer) <= 1000 /\ buffer = LastOf(samples[dkey], 1000)

\* C22 as stated: each buffer holds at most 1000 samples, the most recent
\* ones recorded for its key in arrival order, and the report gives their
\* sum and their number.
C22_ReportsExactSum ==
    /\ BufferIsMostRecent
    /\ \A dkey \in DOMAIN metrics.http_request_duration_seconds :
            LET buffer == metrics.http_request_duration_seconds[dkey]
            IN  /\ Reported("http_request_duration_seconds_sum", dkey) = {Total(buffer)}
                /\ Reported("http_request_duration_seconds_count", dkey) = {Len(buffer)}

\* C22: each buffer holds at most 1000 samples, the most recent ones
\* recorded for its key in arrival order; the report gives their number,
\* and their sum to the nearest microsecond.
C22_ReportsRoundedSum ==
    /\ BufferIsMostRecent
    /\ \A dkey \in DOMAIN metrics.http_request_duration_seconds :
            LET buffer == metrics.http_request_duration_seconds[dkey]
            IN  /\ \E v \in Reported("http_request_duration_seconds_sum", dkey) :
                        /\ Reported("http_request_duration_seconds_sum", dkey) = {v}
                        /\ v % 10 = 0
                        /\ v - Total(buffer) \in -5..5
                /\ Reported("http_request_duration_seconds_count", dkey) = {Len(buffer)}

\* more than 1000 samples recorded for a key, the oldest dropped, and a sum
\* that is not a whole number of microseconds
C22_Witness ==
    \E dkey \in DOMAIN samples :
        /\ Len(samples[dkey]) > 1000
        /\ Len(metrics.http_request_duration_seconds[dkey]) = 1000
        /\ metrics.http_request_duration_seconds[dkey][1] # samples[dkey][1]
        /\ Total(metrics.http_request_duration_seconds[dkey]) % 10 # 0

\* the requests counted for a (method, path), all statuses together, in the
\* counters and in the report
Counted(dkey) ==
    LET keys == {k \in DOMAIN metrics.http_requests_total : k[1] = dkey[1] /\ k[3] = dkey[3]}
    IN  BagCardinality([k \in keys |-> metrics.http_requests_total[k]])
ReportedRequests(dkey) ==
    LET lines == {x \in Report : x.name = "http_requests_total" /\ x.method = dkey[1] /\ x.path = dkey[3]}
    IN  BagCardinality([l \in lines |-> l.value])

\* C23: for every (method, path) the number of samples in its buffer is
\* min(1000, the sum over the statuses of its request counters), and the
\* report's duration count is the same number of its reported counters.
C23_BufferMatchesCounters ==
    \A dkey \in DOMAIN metrics.http_request_duration_seconds
                    \cup {DurationKey(k[1], k[3]) : k \in DOMAIN metrics.http_requests_total} :
        /\ Len(dict_get(metrics.http_request_duration_seconds, dkey, <<>>)) = Min(1000, Counted(dkey))
        /\ Reported("http_request_duration_seconds_count", dkey) = {Min(1000, ReportedRequests(dkey))}

\* a path counted under two statuses, more than 1000 times in all
C23_Witness ==
    \E dkey \in DOMAIN metrics.http_request_duration_seconds :
        /\ Cardinality({k \in DOMAIN metrics.http_requests_total : k[1] = dkey[1] /\ k[3] = dkey[3]}) = 2
        /\ Counted(dkey) > 1000
        /\ Len(metrics.http_request_duration_seconds[dkey]) = 1000

\* C24: every GET /stats response is consistent with one state of the
\* store, also when inserts commit between the handler's queries: no more
\* senders than messages, min(10, senders_count) entries whose counts sum
\* to at most total_messages (to total_messages when there are at most 10
\* senders), first timestamp not after the last, and both timestamps null
\* exactly when total_messages is 0.
C24_StatsConsistent ==
    stats # NoneYet =>
        LET top == stats.messages_per_sender
            listed == sum([i \in 1..Len(top) |-> top[i].count])
        IN  /\ stats.senders_count <= stats.total_messages
            /\ Len(top) = Min(TopSendersLimit, stats.senders_count)
            /\ listed <= stats.total_messages
            /\ stats.senders_count <= TopSendersLimit => listed = stats.total_messages
            /\ (stats.first_message_ts = None) <=> (stats.total_messages = 0)
            /\ (stats.last_message_ts = None) <=> (stats.total_messages = 0)
            /\ stats.total_messages # 0 =>
                    stats.first_message_ts.wall <= stats.last_message_ts.wall

\* the request of this kind that the step answers
Answers(method, path, status) ==
    CopiesIn(<<method, path, status>>, completed') > CopiesIn(<<method, path, status>>, completed)

ReadRoutes == {"/messages", "/stats", "/health/live", "/health/ready", "/metrics"}

\* C25: a step that answers GET /messages, GET /stats, GET /health/live,
\* GET /health/ready or GET /metrics leaves the set of stored rows and every
\* field of every row as they were; the store changes only in a step that
\* answers POST /webhook with 200, and that step only adds rows.
C25_ReadsLeaveStore ==
    [][/\ (\E path \in ReadRoutes : \E status \in {200, 503} : Answers("GET", path, status))
            => store' = store
       /\ store' # store => Answers("POST", "/webhook", 200) /\ store \subseteq store']_vars

\* GET /messages and GET /stats have been answered after a row was stored,
\* and the row is still there
C25_Witness ==
    /\ store # {}
    /\ listing # NoneYet /\ listing.resp.total = 1
    /\ stats # NoneYet /\ stats.total_messages = 1
    /\ CopiesIn(<<"GET", "/messages", 200>>, completed) = 1
    /\ CopiesIn(<<"GET", "/stats", 200>>, completed) = 1

====
